---- MODULE Spec2Model ----
(***************************************************************************)
(* Blogicum (blog/views.py, blog/urls.py): posts, categories, comments and *)
(* the request handlers that list, show, create, edit and delete them.     *)
(*                                                                         *)
(* The database rows are the state.  Every handler is one action: it reads *)
(* the rows, writes them, and leaves its HTTP response in `response`.  The *)
(* response is handed back (Deliver) before the next request is served.    *)
(***************************************************************************)
EXTENDS Integers, Sequences, FiniteSets, TLC

VARIABLES
    posts,          \* Post rows: id -> [author, is_published, category, pub_date]
    comments,       \* Comment rows: id -> [author, post, text]
    categories,     \* Category rows: slug -> is_published
    nextPostId,     \* auto-increment primary key of Post
    nextCommentId,  \* auto-increment primary key of Comment
    now,            \* the database clock read by Now()
    response        \* the response of the request being served

vars == <<posts, comments, categories, nextPostId, nextCommentId, now, response>>

----------------------------------------------------------------------------
(* Bounds *)

MaxPosts == 1       \* posts ever created in one behaviour
MaxComments == 2    \* comments ever created in one behaviour
MaxTime == 2        \* clock values and publication dates are 1..MaxTime
MaxItems == 25      \* largest listing of the pagination specification

----------------------------------------------------------------------------
(* Program constants and input sets *)

MAX_POSTS_IN_ONE_PAGE == 10
paginate_by == 10

Users == {"u1", "u2"}
AnonymousUser == ""                    \* AnonymousUser.username is ''
Requesters == Users \cup {AnonymousUser}
Usernames == Users \cup {"ghost"}      \* "ghost" names no user

NoCategory == ""                       \* Post.category is NULL
Slugs == {"travel", "drafts", "nowhere"}   \* "nowhere" matches no category
CategoryFixture == [s \in {"travel", "drafts"} |-> (s = "travel")]

PubDates == 1..MaxTime
PostIds == 1..MaxPosts
CommentIds == 1..MaxComments
Texts == {"a", "b"}
Methods == {"GET", "POST"}

\* request.GET.get('page'): absent, or a string that is an integer, the
\* word "last", or some other text
NoPage == [kind |-> "missing", n |-> 0]
PageInt(n) == [kind |-> "int", n |-> n]
PageParams ==
    {NoPage, [kind |-> "text", n |-> 0], [kind |-> "last", n |-> 0]}
        \cup {PageInt(n) : n \in {-1, 0, 1, 2, 3, 4, 99}}
FewPageParams == {NoPage, PageInt(2)}

\* the data a submitted PostForm / CommentForm carries, with the verdict of
\* form.is_valid(); a GET carries no data, and a form without data is not
\* valid
UnboundPostForm ==
    [is_published |-> FALSE, category |-> NoCategory, pub_date |-> 1,
     valid |-> FALSE]
PostForms ==
    [is_published : BOOLEAN, category : {NoCategory, "travel", "drafts"},
     pub_date : PubDates, valid : {TRUE}] \cup {UnboundPostForm}
PlainPostForms ==
    {f \in PostForms : f.category = NoCategory /\ f.pub_date = 1}
UnboundCommentForm == [text |-> "", valid |-> FALSE]
CommentForms == [text : Texts, valid : {TRUE}] \cup {UnboundCommentForm}
Submissions(forms, unbound) ==
    {[method |-> "GET", form |-> unbound]}
        \cup {[method |-> "POST", form |-> f] : f \in forms}

----------------------------------------------------------------------------
(* Responses *)

Idle ==
    [handler |-> "none", user |-> AnonymousUser, pk |-> 0, cid |-> 0,
     name |-> "", page |-> NoPage, valid |-> FALSE, saved |-> FALSE,
     status |-> "none", to_pk |-> 0, to_user |-> "", number |-> 0,
     items |-> <<>>]

Request(handler, user) == [Idle EXCEPT !.handler = handler, !.user = user]

render(req) == [req EXCEPT !.status = "render"]
Http404(req) == [req EXCEPT !.status = "not_found"]
redirect_post_detail(req, pk) ==
    [req EXCEPT !.status = "redirect_detail", !.to_pk = pk]
redirect_profile(req, username) ==
    [req EXCEPT !.status = "redirect_profile", !.to_user = username]
redirect_to_login(req) == [req EXCEPT !.status = "redirect_login"]

is_authenticated(user) == user \in Users

----------------------------------------------------------------------------
(* Pagination: django Paginator as used by get_page_obj and by ListView *)

Min(a, b) == IF a < b THEN a ELSE b

num_pages(count, per_page) ==
    IF count = 0 THEN 1 ELSE (count + per_page - 1) \div per_page

page_slice(object_list, number, per_page) ==
    SubSeq(object_list, (number - 1) * per_page + 1,
           Min(number * per_page, Len(object_list)))

\* Paginator.get_page: a page that is not an integer gives page 1, an
\* integer outside 1..num_pages (below or above) gives the last page
get_page_number(count, page) ==
    IF page.kind # "int" THEN 1
    ELSE IF page.n < 1 \/ page.n > num_pages(count, MAX_POSTS_IN_ONE_PAGE)
         THEN num_pages(count, MAX_POSTS_IN_ONE_PAGE)
         ELSE page.n

get_page_obj(req, object_list) ==
    LET number == get_page_number(Len(object_list), req.page)
    IN  [req EXCEPT !.number = number,
                    !.items = page_slice(object_list, number,
                                         MAX_POSTS_IN_ONE_PAGE)]

\* ListView.paginate_queryset: no page means 1, "last" the last page; any
\* other text and any integer outside 1..num_pages raise Http404
paginate_queryset(req, object_list) ==
    LET pages == num_pages(Len(object_list), paginate_by)
        number == CASE req.page.kind = "missing" -> 1
                    [] req.page.kind = "last" -> pages
                    [] req.page.kind = "int" -> req.page.n
                    [] OTHER -> 0
    IN  IF req.page.kind = "text" \/ number < 1 \/ number > pages
        THEN Http404(req)
        ELSE render([req EXCEPT !.number = number,
                                !.items = page_slice(object_list, number,
                                                     paginate_by)])

----------------------------------------------------------------------------
(* Querysets *)

\* order_by('-pub_date'): every sequence of the rows with pub_date
\* descending; the database orders rows of equal pub_date as it likes
RECURSIVE order_by_pub_date_desc(_)
order_by_pub_date_desc(ids) ==
    IF ids = {} THEN {<<>>}
    ELSE LET latest == {p \in ids :
                          \A q \in ids : posts[q].pub_date <= posts[p].pub_date}
         IN  UNION {{<<p>> \o rest : rest \in order_by_pub_date_desc(ids \ {p})}
                    : p \in latest}

category_is_published(post) ==
    post.category \in DOMAIN categories /\ categories[post.category]

get_posts_qs ==
    {p \in DOMAIN posts :
        /\ posts[p].is_published
        /\ category_is_published(posts[p])
        /\ posts[p].pub_date <= now}

\* the category lookup as it would be without is_published=True
category_found_by_slug_only(category_slug) == category_slug \in DOMAIN categories

\* get_object_or_404(Category, is_published=True, slug=category_slug)
category_found(category_slug) ==
    category_slug \in DOMAIN categories /\ categories[category_slug]

category_posts_qs(category_slug) ==
    {p \in DOMAIN posts :
        /\ posts[p].category = category_slug
        /\ posts[p].is_published
        /\ posts[p].pub_date <= now}

profile_posts_qs(username) == {p \in DOMAIN posts : posts[p].author = username}

----------------------------------------------------------------------------
(* Read handlers *)

\* path('', PostListView.as_view())
PostListView(user, page) ==
    /\ response = Idle
    /\ \E object_list \in order_by_pub_date_desc(get_posts_qs) :
          response' = paginate_queryset(
                          [Request("index", user) EXCEPT !.page = page],
                          object_list)
    /\ UNCHANGED <<posts, comments, categories, nextPostId, nextCommentId, now>>

\* path('category/<slug:category_slug>/', category_posts)
category_posts(user, category_slug, page) ==
    LET req == [Request("category", user) EXCEPT !.name = category_slug,
                                                 !.page = page]
    IN  /\ response = Idle
        /\ IF ~category_found(category_slug)
           THEN response' = Http404(req)
           ELSE \E object_list \in
                      order_by_pub_date_desc(category_posts_qs(category_slug)) :
                   response' = render(get_page_obj(req, object_list))
        /\ UNCHANGED <<posts, comments, categories, nextPostId, nextCommentId,
                       now>>

\* path('profile/<str:username>/', profile)
profile(user, username, page) ==
    LET req == [Request("profile", user) EXCEPT !.name = username,
                                                !.page = page]
    IN  /\ response = Idle
        /\ IF username \notin Users
           THEN response' = Http404(req)
           ELSE \E object_list \in
                      order_by_pub_date_desc(profile_posts_qs(username)) :
                   response' = render(get_page_obj(req, object_list))
        /\ UNCHANGED <<posts, comments, categories, nextPostId, nextCommentId,
                       now>>

\* post_detail as it would be with the listings' time filter added
detail_outcome_with_time_filter(user, post) ==
    IF user = post.author THEN "render"
    ELSE IF ~post.is_published THEN "not_found"
    ELSE IF post.category = NoCategory THEN "error"
    ELSE IF ~categories[post.category] THEN "not_found"
    ELSE IF post.pub_date > now THEN "not_found"
    ELSE "render"

\* The condition of post_detail, evaluated left to right as Python does:
\* post.category.is_published on a post without category raises
\* AttributeError
detail_outcome(user, post) ==
    IF user = post.author THEN "render"
    ELSE IF ~post.is_published THEN "not_found"
    ELSE IF post.category = NoCategory THEN "error"
    ELSE IF ~categories[post.category] THEN "not_found"
    ELSE "render"

\* path('posts/<int:pk>/', post_detail)
post_detail(user, pk) ==
    LET req == [Request("post_detail", user) EXCEPT !.pk = pk]
    IN  /\ response = Idle
        /\ response' =
              IF pk \notin DOMAIN posts THEN Http404(req)
              ELSE [req EXCEPT !.status = detail_outcome(user, posts[pk])]
        /\ UNCHANGED <<posts, comments, categories, nextPostId, nextCommentId,
                       now>>

----------------------------------------------------------------------------
(* Post handlers *)

NewPost(user, form) ==
    [author |-> user, is_published |-> form.is_published,
     category |-> form.category, pub_date |-> form.pub_date]

\* path('posts/create/', PostCreateView.as_view())
PostCreateView(user, method, form) ==
    LET req == [Request("create_post", user) EXCEPT !.valid = form.valid]
        saves == is_authenticated(user) /\ method = "POST" /\ form.valid
    IN  /\ response = Idle
        /\ saves => nextPostId <= MaxPosts
        /\ IF ~is_authenticated(user)
           THEN /\ response' = redirect_to_login(req)
                /\ UNCHANGED <<posts, nextPostId>>
           ELSE IF ~saves
           THEN /\ response' = render(req)
                /\ UNCHANGED <<posts, nextPostId>>
           ELSE /\ posts' = posts @@ (nextPostId :> NewPost(user, form))
                /\ nextPostId' = nextPostId + 1
                /\ response' = redirect_profile(
                                   [req EXCEPT !.saved = TRUE, !.pk = nextPostId],
                                   user)
        /\ UNCHANGED <<comments, categories, nextCommentId, now>>

\* path('posts/<int:pk>/edit/', PostUpdateView.as_view()); dispatch looks the
\* post up and compares its author before LoginRequiredMixin.dispatch runs
PostUpdateView(user, pk, method, form) ==
    LET req == [Request("edit_post", user) EXCEPT !.pk = pk,
                                                  !.valid = form.valid]
    IN  /\ response = Idle
        /\ IF pk \notin DOMAIN posts
           THEN response' = Http404(req) /\ UNCHANGED posts
           ELSE IF posts[pk].author # user
           THEN response' = redirect_post_detail(req, pk) /\ UNCHANGED posts
           ELSE IF ~is_authenticated(user)
           THEN response' = redirect_to_login(req) /\ UNCHANGED posts
           ELSE IF method = "GET" \/ ~form.valid
           THEN response' = render(req) /\ UNCHANGED posts
           ELSE /\ posts' = [posts EXCEPT ![pk] = NewPost(@.author, form)]
                /\ response' = redirect_post_detail(
                                   [req EXCEPT !.saved = TRUE], pk)
        /\ UNCHANGED <<comments, categories, nextPostId, nextCommentId, now>>

\* Comment.post is an owning relation: the comments of a deleted post go
\* with it
cascade_delete(pk) ==
    [c \in {d \in DOMAIN comments : comments[d].post # pk} |-> comments[c]]

\* path('posts/<int:pk>/delete/', PostDeleteView.as_view())
PostDeleteView(user, pk, method) ==
    LET req == [Request("delete_post", user) EXCEPT !.pk = pk]
    IN  /\ response = Idle
        /\ IF pk \notin DOMAIN posts
           THEN response' = Http404(req) /\ UNCHANGED <<posts, comments>>
           ELSE IF posts[pk].author # user
           THEN /\ response' = redirect_post_detail(req, pk)
                /\ UNCHANGED <<posts, comments>>
           ELSE IF ~is_authenticated(user)
           THEN /\ response' = redirect_to_login(req)
                /\ UNCHANGED <<posts, comments>>
           ELSE IF method = "GET"
           THEN response' = render(req) /\ UNCHANGED <<posts, comments>>
           ELSE /\ posts' = [p \in DOMAIN posts \ {pk} |-> posts[p]]
                /\ comments' = cascade_delete(pk)
                /\ response' = redirect_profile(
                                   [req EXCEPT !.saved = TRUE], user)
        /\ UNCHANGED <<categories, nextPostId, nextCommentId, now>>

----------------------------------------------------------------------------
(* Comment handlers *)

\* the comment as it would be saved with the post's author as its author
NewComment_by_post_author(user, post_id, text) ==
    [author |-> posts[post_id].author, post |-> post_id, text |-> text]

NewComment(user, post_id, text) ==
    [author |-> user, post |-> post_id, text |-> text]

\* path('posts/<int:post_id>/comment/', add_commnet), under @login_required
add_commnet(user, post_id, form) ==
    LET req == [Request("add_comment", user) EXCEPT !.pk = post_id,
                                                    !.valid = form.valid]
        saves == is_authenticated(user) /\ post_id \in DOMAIN posts
                    /\ form.valid
    IN  /\ response = Idle
        /\ saves => nextCommentId <= MaxComments
        /\ IF ~is_authenticated(user)
           THEN /\ response' = redirect_to_login(req)
                /\ UNCHANGED <<comments, nextCommentId>>
           ELSE IF post_id \notin DOMAIN posts
           THEN /\ response' = Http404(req)
                /\ UNCHANGED <<comments, nextCommentId>>
           ELSE IF ~form.valid
           THEN /\ response' = redirect_post_detail(req, post_id)
                /\ UNCHANGED <<comments, nextCommentId>>
           ELSE /\ comments' = comments @@
                       (nextCommentId :> NewComment(user, post_id, form.text))
                /\ nextCommentId' = nextCommentId + 1
                /\ response' = redirect_post_detail(
                                   [req EXCEPT !.saved = TRUE,
                                               !.cid = nextCommentId],
                                   post_id)
        /\ UNCHANGED <<posts, categories, nextPostId, now>>

\* SingleObjectMixin.get_object of CommentEditView and CommentDeleteView:
\* neither view sets pk_url_kwarg, so the Comment is looked up by the URL's
\* 'pk' (the number after posts/) and 'comment_id' is not read
comment_lookup(pk, comment_id) == pk

\* path('posts/<int:pk>/edit_comment/<int:comment_id>/', CommentEditView)
CommentEditView(user, pk, comment_id, method, form) ==
    LET req == [Request("edit_comment", user) EXCEPT !.pk = pk,
                                                     !.cid = comment_id,
                                                     !.valid = form.valid]
        id == comment_lookup(pk, comment_id)
    IN  /\ response = Idle
        /\ IF id \notin DOMAIN comments
           THEN response' = Http404(req) /\ UNCHANGED comments
           ELSE IF comments[id].author # user
           THEN response' = redirect_post_detail(req, pk) /\ UNCHANGED comments
           ELSE IF ~is_authenticated(user)
           THEN response' = redirect_to_login(req) /\ UNCHANGED comments
           ELSE IF method = "GET" \/ ~form.valid
           THEN response' = render(req) /\ UNCHANGED comments
           ELSE /\ comments' = [comments EXCEPT ![id].text = form.text]
                /\ response' = redirect_post_detail(
                                   [req EXCEPT !.saved = TRUE], pk)
        /\ UNCHANGED <<posts, categories, nextPostId, nextCommentId, now>>

\* path('posts/<int:pk>/delete_comment/<int:comment_id>/', CommentDeleteView)
CommentDeleteView(user, pk, comment_id, method) ==
    LET req == [Request("delete_comment", user) EXCEPT !.pk = pk,
                                                       !.cid = comment_id]
        id == comment_lookup(pk, comment_id)
    IN  /\ response = Idle
        /\ IF id \notin DOMAIN comments
           THEN response' = Http404(req) /\ UNCHANGED comments
           ELSE IF comments[id].author # user
           THEN response' = redirect_post_detail(req, pk) /\ UNCHANGED comments
           ELSE IF ~is_authenticated(user)
           THEN response' = redirect_to_login(req) /\ UNCHANGED comments
           ELSE IF method = "GET"
           THEN response' = render(req) /\ UNCHANGED comments
           ELSE /\ comments' = [c \in DOMAIN comments \ {id} |-> comments[c]]
                /\ response' = redirect_profile(
                                   [req EXCEPT !.saved = TRUE], user)
        /\ UNCHANGED <<posts, categories, nextPostId, nextCommentId, now>>

----------------------------------------------------------------------------
(* The environment *)

\* the response leaves; the next request can be served
Deliver ==
    /\ response # Idle
    /\ response' = Idle
    /\ UNCHANGED <<posts, comments, categories, nextPostId, nextCommentId, now>>

\* the database clock advances between requests
Tick ==
    /\ response = Idle
    /\ now < MaxTime
    /\ now' = now + 1
    /\ UNCHANGED <<posts, comments, categories, nextPostId, nextCommentId,
                   response>>

----------------------------------------------------------------------------
(* Specifications *)

Init ==
    /\ posts = <<>>
    /\ comments = <<>>
    /\ categories = CategoryFixture
    /\ nextPostId = 1
    /\ nextCommentId = 1
    /\ now = 1
    /\ response = Idle

\* Posts and comments and who may change them
Next ==
    \/ \E u \in Requesters, s \in Submissions(PlainPostForms, UnboundPostForm) :
          PostCreateView(u, s.method, s.form)
    \/ \E u \in Requesters, pk \in PostIds,
          s \in Submissions(PlainPostForms, UnboundPostForm) :
          PostUpdateView(u, pk, s.method, s.form)
    \/ \E u \in Requesters, pk \in PostIds, m \in Methods :
          PostDeleteView(u, pk, m)
    \/ \E u \in Requesters, pk \in PostIds, f \in CommentForms :
          add_commnet(u, pk, f)
    \/ \E u \in Requesters, pk \in PostIds, c \in CommentIds,
          s \in Submissions(CommentForms, UnboundCommentForm) :
          CommentEditView(u, pk, c, s.method, s.form)
    \/ \E u \in Requesters, pk \in PostIds, c \in CommentIds, m \in Methods :
          CommentDeleteView(u, pk, c, m)
    \/ Deliver

Spec == Init /\ [][Next]_vars

\* Posts and who sees them, as time passes
NextVis ==
    \/ \E u \in Requesters, s \in Submissions(PostForms, UnboundPostForm) :
          PostCreateView(u, s.method, s.form)
    \/ \E u \in Requesters, pk \in PostIds,
          s \in Submissions(PostForms, UnboundPostForm) :
          PostUpdateView(u, pk, s.method, s.form)
    \/ \E u \in Requesters, pk \in PostIds, m \in Methods :
          PostDeleteView(u, pk, m)
    \/ \E u \in Requesters, page \in FewPageParams : PostListView(u, page)
    \/ \E u \in Requesters, s \in Slugs, page \in FewPageParams :
          category_posts(u, s, page)
    \/ \E u \in Requesters, n \in Usernames, page \in FewPageParams :
          profile(u, n, page)
    \/ \E u \in Requesters, pk \in PostIds : post_detail(u, pk)
    \/ Tick
    \/ Deliver

SpecVis == Init /\ [][NextVis]_vars

\* Listings of 0..MaxItems posts: post i is published in "travel" at time i,
\* by u1 when i is odd and by u2 when i is even
InitPage ==
    /\ \E n \in 0..MaxItems :
          posts = [i \in 1..n |->
                      [author |-> IF i % 2 = 1 THEN "u1" ELSE "u2",
                       is_published |-> TRUE, category |-> "travel",
                       pub_date |-> i]]
    /\ comments = <<>>
    /\ categories = CategoryFixture
    /\ nextPostId = Cardinality(DOMAIN posts) + 1
    /\ nextCommentId = 1
    /\ now = MaxItems
    /\ response = Idle

NextPage ==
    \/ \E u \in Requesters, page \in PageParams : PostListView(u, page)
    \/ \E u \in Requesters, s \in Slugs, page \in PageParams :
          category_posts(u, s, page)
    \/ \E u \in Requesters, n \in Usernames, page \in PageParams :
          profile(u, n, page)
    \/ Deliver

SpecPage == InitPage /\ [][NextPage]_vars

----------------------------------------------------------------------------
(* Properties *)

ItemsOf(resp) == {resp.items[i] : i \in 1..Len(resp.items)}
Served(handlers) == response.handler = "none" /\ response'.handler \in handlers
CategoryPublished(slug) == slug \in {"travel", "drafts"} /\ categories[slug]

\* C1: an edit or delete request by a user B against a post or comment
\* authored by another user A is answered by a redirect to the post's detail
\* page and leaves the entity as it was.
C1_ForeignEntityRedirected ==
    [][Served({"edit_post", "delete_post", "edit_comment", "delete_comment"})
         /\ response'.user \in Users
       => LET r == response' IN
          /\ (/\ r.handler \in {"edit_post", "delete_post"}
              /\ r.pk \in DOMAIN posts
              /\ posts[r.pk].author # r.user)
             => /\ r.status = "redirect_detail" /\ r.to_pk = r.pk
                /\ posts' = posts /\ comments' = comments
          /\ (/\ r.handler \in {"edit_comment", "delete_comment"}
              /\ r.cid \in DOMAIN comments
              /\ comments[r.cid].post = r.pk
              /\ comments[r.cid].author # r.user)
             => /\ r.status = "redirect_detail" /\ r.to_pk = r.pk
                /\ comments' = comments]_vars

\* C2: an unauthenticated edit or delete request for an existing post or
\* comment is answered by the redirect to the login flow; the ownership
\* redirect is given to authenticated requesters only.
C2_LoginBeforeOwnership ==
    (/\ response.user = AnonymousUser
     /\ \/ /\ response.handler \in {"edit_post", "delete_post"}
           /\ response.pk \in DOMAIN posts
        \/ /\ response.handler \in {"edit_comment", "delete_comment"}
           /\ response.pk \in DOMAIN comments
           /\ response.cid \in DOMAIN comments)
    => response.status = "redirect_login"

\* C3: a post with is_published = false is on no page of the index, a
\* category listing or a profile listing served to anyone but its author.
C3_UnpublishedNeverListed ==
    response.handler \in {"index", "category", "profile"}
    => \A p \in ItemsOf(response) :
          posts[p].is_published \/ posts[p].author = response.user

\* C4: post detail of an existing post either renders (requester is the
\* author, or post and category are published) or is Not-Found; there is no
\* third outcome, also for a post without category.
C4_DetailRendersOrNotFound ==
    (response.handler = "post_detail" /\ response.pk \in DOMAIN posts)
    => LET post == posts[response.pk]
           mine == response.user = post.author
       IN  /\ response.status \in {"render", "not_found"}
           /\ mine => response.status = "render"
           /\ (~mine /\ ~post.is_published) => response.status = "not_found"
           /\ (~mine /\ post.category # NoCategory)
              => (response.status = "render"
                    <=> post.is_published /\ CategoryPublished(post.category))

\* C5: a listing with a missing, non-numeric or out-of-range page parameter
\* is rendered, never an error: page 1 for a missing or too small number,
\* the last page for a too large one.
C5_PageDegradesGracefully ==
    LET r == response
        rows == CASE r.handler = "index" ->
                       {p \in DOMAIN posts :
                          /\ posts[p].is_published /\ posts[p].pub_date <= now
                          /\ CategoryPublished(posts[p].category)}
                  [] r.handler = "category" ->
                       {p \in DOMAIN posts :
                          /\ posts[p].is_published /\ posts[p].pub_date <= now
                          /\ posts[p].category = r.name}
                  [] OTHER -> {p \in DOMAIN posts : posts[p].author = r.name}
        last == IF rows = {} THEN 1 ELSE (Cardinality(rows) + 9) \div 10
    IN  (\/ r.handler = "index"
         \/ r.handler = "category" /\ CategoryPublished(r.name)
         \/ r.handler = "profile" /\ r.name \in Users)
        => /\ r.status = "render"
           /\ (r.page.kind = "missing" \/ (r.page.kind = "int" /\ r.page.n < 1))
              => r.number = 1
           /\ (r.page.kind = "int" /\ r.page.n > last) => r.number = last
           /\ (r.page.kind = "int" /\ r.page.n \in 1..last)
              => r.number = r.page.n

\* C6: a post dated in the future, published and in a published category, is
\* absent from the index and from its category's listing, and its detail
\* page is rendered for a requester who is not its author.
C6_FutureHiddenButReachable ==
    \A p \in DOMAIN posts :
        (/\ posts[p].pub_date > now
         /\ posts[p].is_published
         /\ CategoryPublished(posts[p].category))
        => /\ response.handler = "index" => p \notin ItemsOf(response)
           /\ (response.handler = "category"
                 /\ response.name = posts[p].category)
              => (response.status = "render" /\ p \notin ItemsOf(response))
           /\ (/\ response.handler = "post_detail"
               /\ response.pk = p
               /\ response.user # posts[p].author)
              => response.status = "render"

C6_Witness ==
    \E p \in DOMAIN posts :
        /\ posts[p].pub_date > now
        /\ posts[p].is_published
        /\ CategoryPublished(posts[p].category)
        /\ response.handler = "post_detail"
        /\ response.pk = p
        /\ response.user = AnonymousUser
        /\ response.status = "render"

\* C7: the category listing of an unpublished category, and of a slug that
\* names no category, is Not-Found for every requester, whatever posts the
\* category holds.
C7_HiddenCategoryNotFound ==
    (response.handler = "category" /\ ~CategoryPublished(response.name))
    => response.status = "not_found"

C7_Witness ==
    /\ response.handler = "category"
    /\ response.name = "drafts"
    /\ ~categories["drafts"]
    /\ \E p \in DOMAIN posts :
          /\ posts[p].category = "drafts"
          /\ posts[p].is_published
          /\ posts[p].pub_date <= now
    /\ response.status = "not_found"

\* C8: add comment by an authenticated user on an existing post redirects to
\* that post's detail page; a valid form adds exactly one comment, by that
\* user on that post, an invalid one adds none, and nothing else changes.
\* On a post that does not exist it is Not-Found and nothing is saved.
C8_AddCommentFrame ==
    [][Served({"add_comment"}) /\ response'.user \in Users
       => LET r == response' IN
          /\ posts' = posts
          /\ IF r.pk \notin DOMAIN posts
             THEN r.status = "not_found" /\ comments' = comments
             ELSE /\ r.status = "redirect_detail" /\ r.to_pk = r.pk
                  /\ IF ~r.valid THEN comments' = comments
                     ELSE \E c \in DOMAIN comments' \ DOMAIN comments :
                            /\ DOMAIN comments' = DOMAIN comments \cup {c}
                            /\ comments'[c].author = r.user
                            /\ comments'[c].post = r.pk
                            /\ \A d \in DOMAIN comments :
                                  comments'[d] = comments[d]]_vars

C8_Witness ==
    /\ response.handler = "add_comment"
    /\ response.valid
    /\ response.status = "redirect_detail"
    /\ response.cid \in DOMAIN comments
    /\ comments[response.cid].author = response.user
    /\ comments[response.cid].post = response.pk
    /\ posts[response.pk].author # response.user
    /\ \E d \in DOMAIN comments : comments[d].author # response.user

\* C9: a comment edit and a comment delete that went through are both
\* answered by a redirect to the detail page of the post named in the
\* request.
C9_CommentSuccessRedirectsToPost ==
    (response.handler \in {"edit_comment", "delete_comment"} /\ response.saved)
    => (response.status = "redirect_detail" /\ response.to_pk = response.pk)

\* C10: an edit_comment or delete_comment request changes no comment other
\* than the one comment_id names, and changes that one only when its author
\* is the requester.
C10_CommentNamedByCommentId ==
    [][Served({"edit_comment", "delete_comment"})
       => LET r == response' IN
          /\ \A c \in DOMAIN comments \ {r.cid} :
                c \in DOMAIN comments' /\ comments'[c] = comments[c]
          /\ r.saved => /\ r.cid \in DOMAIN comments
                        /\ comments[r.cid].author = r.user]_vars

====
